---------------------------- MODULE Spec2Model ----------------------------
(***************************************************************************)
(* A model of the contract-program core of                                 *)
(* src/src/classes/contract_program.py: the expected-utility evaluators    *)
(* (approximate and exact) and the hill-climbing searches (base,           *)
(* outer-conditional, outer-for, inner).                                   *)
(*                                                                         *)
(* Numbers.  Times are integers, in ticks of 0.01 time units, so that the  *)
(* default threshold .01 is one tick.  time_switched / decay is the        *)
(* fixed-point quotient (time_switched * 10) \div 11.  Probabilities,      *)
(* qualities and expected utilities are exact rationals <<n, d>> in lowest *)
(* terms.  Sample qualities of the performance profile lie on the grid     *)
(* 0/QD .. QD/QD and are written as their numerators.                      *)
(*                                                                         *)
(* The collaborators whose code is not in src/ (PerformanceProfile,        *)
(* InitializeAllocations, utils, Node) are modelled from their interface   *)
(* in the specification.                                                   *)
(***************************************************************************)
EXTENDS Integers, Sequences, FiniteSets, TLC

\* The total budget of the outer program, in ticks.
MaxBudget == 8
\* The budget the diamond program is built with.
DiamondBudget == 6
\* The quality grid of the performance-profile store: qualities k / QD.
QD == 4
\* calculate_tau(): the fixed dispatch overhead, in ticks.
Tau == 1
\* threshold=.01 (one tick) and decay=1.1 = DecayNum / DecayDen, the defaults
\* every search runs with.
Threshold == 1
DecayNum == 11
DecayDen == 10

\* An optional value (a time, a quality) is <<>> for None and <<v>> for v.
None == <<>>
Some(v) == <<v>>

---------------------------------------------------------------------------
(* Exact rational arithmetic on <<numerator, denominator>>, denominator > 0 *)

RECURSIVE GCD(_, _)
GCD(a, b) == IF b = 0 THEN a ELSE GCD(b, a % b)

Abs(x) == IF x < 0 THEN -x ELSE x

\* n / d in lowest terms, d > 0
Rat(n, d) == <<n \div GCD(Abs(n), d), d \div GCD(Abs(n), d)>>

ROne == <<1, 1>>
RZero == <<0, 1>>

RMul(x, y) == Rat(x[1] * y[1], x[2] * y[2])

RAdd(x, y) ==
    LET g == GCD(x[2], y[2])
        l == (x[2] \div g) * y[2]
    IN  Rat(x[1] * (l \div x[2]) + y[1] * (l \div y[2]), l)

\* x > y
RGt(x, y) ==
    LET g == GCD(x[2], y[2])
    IN  x[1] * (y[2] \div g) > y[1] * (x[2] \div g)

RGe(x, y) == ~RGt(y, x)

Min2(a, b) == IF a <= b THEN a ELSE b

RECURSIVE SeqMin(_, _)
\* the least of m and the entries of s that are not None
SeqMin(m, s) ==
    IF s = <<>> THEN m
    ELSE SeqMin(IF Head(s) # None THEN Min2(m, Head(s)[1]) ELSE m, Tail(s))

RECURSIVE RProd(_)
\* math.prod over a list of rationals
RProd(s) == IF s = <<>> THEN ROne ELSE RMul(Head(s), RProd(Tail(s)))

---------------------------------------------------------------------------
VARIABLES
    shape,                       \* "flat", "diamond", "cond" or "for"
    order,                       \* generator_dag.order: the number of nodes
    expected_utility_type,       \* "approximate" or "exact"
    rates,                       \* the performance-profile store
    parents,                     \* parents[p][n]: node n's parent list in p's DAG
    children,                    \* children[p][n]: node n's child list in p's DAG
    budget,                      \* budget[p]: ContractProgram.budget
    ia_budget,                   \* ia_budget[p]: initialize_allocations.budget
    allocations,                 \* allocations[p]: ContractProgram.allocations
    original_allocations_inner,  \* of the outer program; <<>> stands for None
    pc,                          \* where the running search is
    prog,                        \* the program whose search is running
    variant,                     \* "base", "outer_conditional", "outer_for", "inner"
    time_switched,
    todo,                        \* the permutations the scan round has not reached
    possible_local_max,
    true_allocations,
    false_allocations,
    for_allocations,
    scan,                        \* what the last scanned permutation did
    evals,                       \* the evaluation calls made in a row
    start,                       \* the state a search started from (history)
    improved                     \* a candidate of the search scored above the
                                 \* baseline it was compared with (history)

vars == <<shape, order, expected_utility_type, rates, parents, children, budget,
          ia_budget, allocations, original_allocations_inner, pc, prog, variant,
          time_switched, todo, possible_local_max, true_allocations,
          false_allocations, for_allocations, scan, evals, start, improved>>

---------------------------------------------------------------------------
(* The programs.  Program 0 is the outer program.  In shape "cond" node 3  *)
(* is the conditional, programs 1 and 2 are its true and false subprogram  *)
(* (the DAG of tests/two_node_diagnosis: 4 -> 3 -> {1, 2} -> 0).  In shape *)
(* "for" node 3 is the for node and program 1 its loop body                *)
(* (4 -> 3 -> 1 -> 2 -> 0).  Shape "flat" is a chain order-1 -> ... -> 0   *)
(* of plain contract nodes, shape "diamond" the plain DAG 3 -> {1, 2} -> 0 *)
(* in which two paths from the one leaf meet again at the root.            *)

Outer == 0
TrueSub == 1
FalseSub == 2
ForSub == 1
Dispatch == 3
TrueNode == 1
FalseNode == 2

\* the shapes with a conditional or a for node, and so with subprograms
Dispatching(s) == s \in {"cond", "for"}

Programs(s) == IF s = "cond" THEN {0, 1, 2} ELSE IF s = "for" THEN {0, 1} ELSE {0}

\* program_dag.nodes of program p, in list order
DagNodes(s, k, p) ==
    IF ~Dispatching(s) THEN [i \in 1..k |-> i - 1]
    ELSE IF p = Outer THEN <<0, 1, 2, 3, 4>>
    ELSE IF s = "cond" THEN (IF p = TrueSub THEN <<1, 3>> ELSE <<2, 3>>)
    ELSE <<1, 2>>

SeqSet(q) == {q[i] : i \in 1..Len(q)}

\* node.expression_type
ExprType(s, n) ==
    IF s = "cond" /\ n = Dispatch THEN "conditional"
    ELSE IF s = "for" /\ n = Dispatch THEN "for"
    ELSE "contract"

IsDispatch(s, n) == ExprType(s, n) \in {"conditional", "for"}

\* node.in_subtree of node n in the DAG of program p
InSubtree(s, p, n) == Dispatching(s) /\ (p # Outer \/ n \in {1, 2})

\* node.parents as the DAG is built
InitParents(s, k, p) ==
    IF s = "flat" THEN [n \in 0..(k - 1) |-> IF n + 1 < k THEN <<n + 1>> ELSE <<>>]
    ELSE IF s = "diamond" THEN [n \in 0..3 |-> CASE n = 0 -> <<1, 2>> [] n = 1 -> <<3>>
                                                  [] n = 2 -> <<3>> [] OTHER -> <<>>]
    ELSE IF s = "cond" THEN
        IF p = Outer THEN [n \in 0..4 |-> CASE n = 0 -> <<1, 2>> [] n = 1 -> <<3>>
                                            [] n = 2 -> <<3>> [] n = 3 -> <<4>>
                                            [] OTHER -> <<>>]
        ELSE [n \in SeqSet(DagNodes(s, k, p)) |-> IF n = Dispatch THEN <<>> ELSE <<3>>]
    ELSE
        IF p = Outer THEN [n \in 0..4 |-> CASE n = 0 -> <<2>> [] n = 2 -> <<1>>
                                            [] n = 1 -> <<3>> [] n = 3 -> <<4>>
                                            [] OTHER -> <<>>]
        ELSE [n \in {1, 2} |-> IF n = 2 THEN <<1>> ELSE <<>>]

\* node.children as the DAG is built
InitChildren(s, k, p) ==
    IF s = "flat" THEN [n \in 0..(k - 1) |-> IF n > 0 THEN <<n - 1>> ELSE <<>>]
    ELSE IF s = "diamond" THEN [n \in 0..3 |-> CASE n = 3 -> <<1, 2>> [] n = 1 -> <<0>>
                                                  [] n = 2 -> <<0>> [] OTHER -> <<>>]
    ELSE IF s = "cond" THEN
        IF p = Outer THEN [n \in 0..4 |-> CASE n = 4 -> <<3>> [] n = 3 -> <<1, 2>>
                                            [] n = 1 -> <<0>> [] n = 2 -> <<0>>
                                            [] OTHER -> <<>>]
        ELSE [n \in SeqSet(DagNodes(s, k, p)) |->
                 IF n = Dispatch THEN <<CHOOSE m \in SeqSet(DagNodes(s, k, p)) : m # Dispatch>>
                 ELSE <<>>]
    ELSE
        IF p = Outer THEN [n \in 0..4 |-> CASE n = 4 -> <<3>> [] n = 3 -> <<1>>
                                            [] n = 1 -> <<2>> [] n = 2 -> <<0>>
                                            [] OTHER -> <<>>]
        ELSE [n \in {1, 2} |-> IF n = 1 THEN <<2>> ELSE <<>>]

\* program_dag.order of program p
DagOrder(s, k, p) == Len(DagNodes(s, k, p))

---------------------------------------------------------------------------
(* The performance profile.  The store holds, for every node, the rates of *)
(* its sampled instances; an instance of rate r reaches quality            *)
(* min(1, r * time / QD), and never more than the least of its parents'    *)
(* qualities.                                                              *)

RatePairs == {<<1, 1>>, <<1, 2>>}
\* the nodes of a branch or of a loop body may also be of the fast kind
BranchRatePairs == RatePairs \cup {<<2, 2>>}

\* query_quality_list_on_interval(time, id, parent_qualities)
query_quality_list_on_interval(time, id, parent_qualities) ==
    [i \in 1..Len(rates[id]) |-> SeqMin(Min2(QD, rates[id][i] * time), parent_qualities)]

RECURSIVE SeqSum(_)
SeqSum(s) == IF s = <<>> THEN 0 ELSE Head(s) + SeqSum(Tail(s))

\* average_quality(quality_list), on the quality grid
average_quality(quality_list) == SeqSum(quality_list) \div Len(quality_list)

\* query_probability_contract_expression(queried_quality, quality_list)
query_probability_contract_expression(queried_quality, quality_list) ==
    Rat(Cardinality({i \in 1..Len(quality_list) : quality_list[i] = queried_quality}),
        Len(quality_list))

RECURSIVE find_parent_qualities(_, _, _)
RECURSIVE ParentQualitiesFrom(_, _, _, _)
\* the average qualities of the parents ps[i..] that are plain nodes with a time
ParentQualitiesFrom(p, ps, i, time_allocations) ==
    IF i > Len(ps) THEN <<>>
    ELSE LET m == ps[i]
             rest == ParentQualitiesFrom(p, ps, i + 1, time_allocations)
         IN  IF IsDispatch(shape, m) \/ time_allocations[m] = None THEN rest
             ELSE <<Some(average_quality(query_quality_list_on_interval(
                        time_allocations[m][1], m,
                        find_parent_qualities(p, m, time_allocations))))>> \o rest

\* find_parent_qualities(node, time_allocations, depth=0)
find_parent_qualities(p, node, time_allocations) ==
    ParentQualitiesFrom(p, parents[p][node], 1, time_allocations)

---------------------------------------------------------------------------
(* The approximate evaluator.  subs is the allocation vector every program *)
(* holds when the call is made; the call returns its value together with   *)
(* the vectors the programs hold when it returns.                          *)

\* the utility as the sum of the qualities
RECURSIVE RSum(_)
RSum(s) == IF s = <<>> THEN RZero ELSE RAdd(Head(s), RSum(Tail(s)))
global_utility_sum(qualities) == RSum(qualities)

\* global_utility(qualities): math.prod of the flattened qualities
global_utility(qualities) == RProd(qualities)

\* lines 143-149, 169-173: the subprograms of the node take the override
SwapInOverride(subs, original_allocations_inner_, ids) ==
    IF original_allocations_inner_ # <<>>
    THEN [q \in DOMAIN subs |->
             IF \E i \in 1..Len(ids) : ids[i] = q
             THEN original_allocations_inner_[CHOOSE i \in 1..Len(ids) : ids[i] = q]
             ELSE subs[q]]
    ELSE subs

\* the query without the restore after it
RestoreAfterQueryMissing(copied, swapped, original_allocations_inner_, ids) == swapped

\* lines 162-164, 185-186: the subprograms take back the copies made before
RestoreAfterQuery(copied, swapped, original_allocations_inner_, ids) ==
    IF original_allocations_inner_ # <<>>
    THEN [q \in DOMAIN swapped |->
             IF \E i \in 1..Len(ids) : ids[i] = q THEN copied[q] ELSE swapped[q]]
    ELSE swapped

RECURSIVE global_expected_utility_approximate(_, _, _, _)
RECURSIVE ApproximateFrom(_, _, _, _, _)

\* a subprogram's own evaluation of the allocations it holds
SubprogramExpectedUtility(q, subs) ==
    global_expected_utility_approximate(q, subs[q], <<>>, subs).value

\* query_probability_and_quality_from_conditional_expression(node)
query_probability_and_quality_from_conditional_expression(subs) ==
    <<RMul(<<1, 2>>, RAdd(SubprogramExpectedUtility(TrueSub, subs),
                          SubprogramExpectedUtility(FalseSub, subs))), ROne>>

\* query_probability_and_quality_from_for_expression(node)
query_probability_and_quality_from_for_expression(subs) ==
    <<SubprogramExpectedUtility(ForSub, subs), ROne>>

\* The subprograms a dispatch node owns, in the order of the override list.
SubprogramsOf(s) == IF s = "cond" THEN <<TrueSub, FalseSub>> ELSE <<ForSub>>

\* lines 133-204: the loop over the allocations from entry i on
ApproximateFrom(p, time_allocations, original_allocations_inner_, i, acc) ==
    IF i >= order THEN acc
    ELSE CASE time_allocations[i] = None \/ (IsDispatch(shape, i) /\ InSubtree(shape, p, i)) ->
              ApproximateFrom(p, time_allocations, original_allocations_inner_, i + 1, acc)
           [] time_allocations[i] # None /\ IsDispatch(shape, i) /\ ~InSubtree(shape, p, i) ->
              LET Query(swapped) ==
                      IF ExprType(shape, i) = "conditional"
                      THEN query_probability_and_quality_from_conditional_expression(swapped)
                      ELSE query_probability_and_quality_from_for_expression(swapped)
                  NextEntry(swapped, probability_and_qualities) ==
                      ApproximateFrom(p, time_allocations, original_allocations_inner_, i + 1,
                          [subs |-> RestoreAfterQuery(acc.subs, swapped,
                                        original_allocations_inner_, SubprogramsOf(shape)),
                           probability |->
                               RMul(acc.probability, probability_and_qualities[1]),
                           average_qualities |->
                               Append(acc.average_qualities, probability_and_qualities[2])])
                  Queried(swapped) == NextEntry(swapped, Query(swapped))
              IN  Queried(SwapInOverride(acc.subs, original_allocations_inner_,
                                         SubprogramsOf(shape)))
           [] OTHER ->
              LET parent_qualities == find_parent_qualities(p, i, time_allocations)
                  qualities == query_quality_list_on_interval(time_allocations[i][1], i,
                                                              parent_qualities)
                  average_quality_ == average_quality(qualities)
              IN  ApproximateFrom(p, time_allocations, original_allocations_inner_, i + 1,
                      [subs |-> acc.subs,
                       probability |-> RMul(acc.probability,
                           query_probability_contract_expression(average_quality_, qualities)),
                       average_qualities |->
                           Append(acc.average_qualities, Rat(average_quality_, QD))])

\* global_expected_utility_approximate(time_allocations, original_allocations_inner)
global_expected_utility_approximate(p, time_allocations, original_allocations_inner_, subs) ==
    LET Returned(acc) ==
            [value |-> RMul(acc.probability, global_utility(acc.average_qualities)),
             subs |-> acc.subs]
    IN  Returned(ApproximateFrom(p, time_allocations, original_allocations_inner_, 0,
                     [probability |-> ROne, average_qualities |-> <<>>, subs |-> subs]))

---------------------------------------------------------------------------
(* The exact evaluator.  A list of nodes the recursion walks is either the *)
(* list built by find_terminal_leaves_in_dag or the children list of a     *)
(* node, which the recursion holds by reference: st.top is the former,     *)
(* st.children[p][n] the latter, st.current_qualities the shared list of   *)
(* the qualities fixed so far.                                             *)

\* self.possible_qualities, on the grid of sample qualities
possible_qualities == IF shape = "flat" THEN <<QD \div 2, QD>> ELSE <<QD \div 2>>

\* utils.find_terminal_leaves_in_dag(program_dag): the nodes without parents
RECURSIVE TerminalLeavesFrom(_, _, _)
TerminalLeavesFrom(p, nodes, i) ==
    IF i > Len(nodes) THEN <<>>
    ELSE (IF parents[p][nodes[i]] = <<>> THEN <<nodes[i]>> ELSE <<>>)
         \o TerminalLeavesFrom(p, nodes, i + 1)
find_terminal_leaves_in_dag(p) == TerminalLeavesFrom(p, DagNodes(shape, order, p), 1)

LeavesOf(p, st, ref) == IF ref = <<>> THEN st.top ELSE st.children[p][ref[1]]

\* leaves.extend(node.children), line 540
ExtendLeaves(p, st, ref, node) ==
    IF ref = <<>>
    THEN [st EXCEPT !.top = st.top \o st.children[p][node]]
    ELSE [st EXCEPT !.children[p][ref[1]] = st.children[p][ref[1]] \o st.children[p][node]]

\* the parents' qualities with those of the conditional and for parents among them
RECURSIVE ExactParentQualitiesAll(_, _, _)
ExactParentQualitiesAll(ps, i, current_qualities) ==
    IF i > Len(ps) THEN <<>>
    ELSE <<current_qualities[ps[i]]>> \o ExactParentQualitiesAll(ps, i + 1, current_qualities)

\* lines 544-555: the qualities of the parents that are no dispatch nodes
RECURSIVE ExactParentQualities(_, _, _)
ExactParentQualities(ps, i, current_qualities) ==
    IF i > Len(ps) THEN <<>>
    ELSE (IF IsDispatch(shape, ps[i]) THEN <<>> ELSE <<current_qualities[ps[i]]>>)
         \o ExactParentQualities(ps, i + 1, current_qualities)

\* utils.remove_nones_list(current_qualities), as qualities in [0, 1]
RECURSIVE QualitiesSet(_, _)
QualitiesSet(current_qualities, i) ==
    IF i >= order THEN <<>>
    ELSE (IF current_qualities[i] = None THEN <<>>
          ELSE <<Rat(current_qualities[i][1], QD)>>)
         \o QualitiesSet(current_qualities, i + 1)

\* lines 560-570: what the performance profile is asked at one quality of one
\* node, with the depth of the call and the qualities fixed at the time
Query(node, parent_qualities, possible_quality, depth, current_qualities) ==
    [node |-> node, parent_qualities |-> parent_qualities,
     quality |-> possible_quality, depth |-> depth,
     current_qualities |-> current_qualities]

RECURSIVE find_exact_expected_utility(_, _, _, _, _, _, _)
RECURSIVE ExactNodes(_, _, _, _, _, _, _, _, _)
RECURSIVE ExactQualities(_, _, _, _, _, _, _, _, _, _)

\* lines 558-588: the loop over the possible qualities of one node, from k on
ExactQualities(p, time_allocations, depth, node, k, expected_utility, sum, parent_qualities, st, ref) ==
    IF k > Len(possible_qualities)
    THEN [st |-> st, expected_utility |-> expected_utility, sum |-> sum]
    ELSE LET possible_quality == possible_qualities[k]
             st1 == [st EXCEPT !.current_qualities[node] = Some(possible_quality),
                               !.queries = Append(st.queries,
                                               Query(node, parent_qualities,
                                                     possible_quality, depth,
                                                     st.current_qualities))]
             sample_quality_list ==
                 query_quality_list_on_interval(time_allocations[node][1], node,
                                                parent_qualities)
             conditional_probability ==
                 query_probability_contract_expression(possible_quality,
                                                       sample_quality_list)
         IN  IF depth = DagOrder(shape, order, p) - 1
             THEN ExactQualities(p, time_allocations, depth, node, k + 1,
                      expected_utility,
                      RAdd(sum, RMul(conditional_probability,
                               global_utility(QualitiesSet(st1.current_qualities, 0)))),
                      parent_qualities, st1, ref)
             ELSE LET NextQuality(r) ==
                          ExactQualities(p, time_allocations, depth, node, k + 1,
                              RAdd(expected_utility, RMul(conditional_probability, r.value)),
                              sum, parent_qualities, r.st, ref)
                  IN  NextQuality(find_exact_expected_utility(p, <<node>>,
                                      time_allocations, depth, expected_utility, <<>>, st1))

\* lines 530-588: the loop over the leaves, from the i-th on
ExactNodes(p, ref, time_allocations, depth, i, expected_utility, sum, parent_qualities, st) ==
    IF i > Len(LeavesOf(p, st, ref))
    THEN [st |-> st, expected_utility |-> expected_utility, sum |-> sum]
    ELSE LET node == LeavesOf(p, st, ref)[i]
         IN  IF IsDispatch(shape, node)
             THEN ExactNodes(p, ref, time_allocations, depth, i + 1, expected_utility,
                             sum, parent_qualities, ExtendLeaves(p, st, ref, node))
             ELSE LET pq == IF parents[p][node] # <<>> /\ depth # 1
                            THEN parent_qualities \o
                                 ExactParentQualities(parents[p][node], 1,
                                                      st.current_qualities)
                            ELSE parent_qualities
                      NextNode(r) == ExactNodes(p, ref, time_allocations, depth, i + 1,
                                                r.expected_utility, r.sum, pq, r.st)
                  IN  NextNode(ExactQualities(p, time_allocations, depth, node, 1,
                                              expected_utility, sum, pq, st, ref))

\* find_exact_expected_utility(leaves, time_allocations, depth, expected_utility,
\*                             current_qualities, parent_qualities, ..., sum = 0)
find_exact_expected_utility(p, ref, time_allocations, depth_, expected_utility, parent_qualities, st) ==
    LET depth == depth_ + 1
    IN  IF LeavesOf(p, st, ref) # <<>>
        THEN LET Returned(r) ==
                     [st |-> r.st,
                      value |-> IF depth = DagOrder(shape, order, p) - 1
                                THEN r.sum ELSE r.expected_utility]
             IN  Returned(ExactNodes(p, ref, time_allocations, depth, 1,
                                     expected_utility, RZero, parent_qualities, st))
        ELSE [st |-> st, value |-> RZero]

\* global_expected_utility_exact(time_allocations, original_allocations_inner)
global_expected_utility_exact(p, time_allocations, children_) ==
    LET Returned(r) == [value |-> r.value, children |-> r.st.children,
                        queries |-> r.st.queries,
                        current_qualities |-> r.st.current_qualities]
    IN  Returned(find_exact_expected_utility(p, <<>>, time_allocations, 0, ROne, <<>>,
                     [top |-> find_terminal_leaves_in_dag(p),
                      children |-> children_,
                      current_qualities |-> [i \in 0..(order - 1) |-> None],
                      queries |-> <<>>]))

---------------------------------------------------------------------------
(* global_expected_utility and the budget initializer                      *)

\* what a call returns: the value of the evaluator, no exception, and the
\* allocations and children lists the programs hold afterwards
ReturnedExact(r, subs) ==
    [value |-> r.value, raised |-> "", subs |-> subs, children |-> r.children,
     queries |-> r.queries, current_qualities |-> r.current_qualities]
ReturnedApproximate(r, children_) ==
    [value |-> r.value, raised |-> "", subs |-> r.subs, children |-> children_,
     queries |-> <<>>, current_qualities |-> <<>>]

\* the dispatch on the type without its last branch: whatever is not "exact" is
\* evaluated approximately
global_expected_utility_lenient(p, time_allocations, original_allocations_inner_, subs, children_) ==
    IF expected_utility_type = "exact"
    THEN ReturnedExact(global_expected_utility_exact(p, time_allocations, children_), subs)
    ELSE ReturnedApproximate(global_expected_utility_approximate(p, time_allocations,
                                 original_allocations_inner_, subs), children_)

\* global_expected_utility(time_allocations, original_allocations_inner):
\* the value, or the exception raised in its place, the allocations the programs
\* hold and the children lists on return
global_expected_utility(p, time_allocations, original_allocations_inner_, subs, children_) ==
    IF expected_utility_type = "exact"
    THEN ReturnedExact(global_expected_utility_exact(p, time_allocations, children_), subs)
    ELSE IF expected_utility_type = "approximate"
    THEN ReturnedApproximate(global_expected_utility_approximate(p, time_allocations,
                                 original_allocations_inner_, subs), children_)
    ELSE [value |-> None, raised |-> "ValueError", subs |-> subs, children |-> children_,
          queries |-> <<>>, current_qualities |-> <<>>]

\* the nodes of program p's DAG the initializer gives time to
DispatchNodes(p) == {n \in SeqSet(DagNodes(shape, order, p)) : IsDispatch(shape, n)}
PlainNodes(p) ==
    {n \in SeqSet(DagNodes(shape, order, p)) :
        ~IsDispatch(shape, n) /\ (p # Outer \/ shape = "cond" \/ ~InSubtree(shape, p, n))}

\* the number of shares the budget is divided into: one for every node that is
\* given time, the two branches of a conditional counted once
UniformShares(p) ==
    Cardinality(PlainNodes(p)) - (IF p = Outer /\ shape = "cond" THEN 1 ELSE 0)

\* InitializeAllocations.find_uniform_allocation(budget)
find_uniform_allocation(p, budget_) ==
    (budget_ - Tau * Cardinality(DispatchNodes(p))) \div UniformShares(p)

\* InitializeAllocations.uniform_budget(), from the budget the initializer holds
uniform_budget(p, budget_) ==
    [i \in 0..(order - 1) |->
        IF i \in DispatchNodes(p) THEN Some(Tau)
        ELSE IF i \in PlainNodes(p) THEN Some(find_uniform_allocation(p, budget_))
        ELSE None]

---------------------------------------------------------------------------
(* The parts the four hill-climbing variants share                          *)

\* utils.remove_nones_time_allocations(self.allocations), as node ids
RECURSIVE remove_nones_time_allocations(_, _)
remove_nones_time_allocations(a, i) ==
    IF i >= order THEN <<>>
    ELSE (IF a[i] = None THEN <<>> ELSE <<i>>) \o remove_nones_time_allocations(a, i + 1)

\* itertools.permutations(refactored_allocations, 2), in the order it yields them
RECURSIVE PermutationsFrom(_, _, _)
PermutationsFrom(ids, i, j) ==
    IF i > Len(ids) THEN <<>>
    ELSE IF j > Len(ids) THEN PermutationsFrom(ids, i + 1, 1)
    ELSE (IF i = j THEN <<>> ELSE <<<<ids[i], ids[j]>>>>) \o PermutationsFrom(ids, i, j + 1)
permutations(a) == PermutationsFrom(remove_nones_time_allocations(a, 0), 1, 1)

\* time_switched / decay
Decay(time_switched_) == (time_switched_ * DecayDen) \div DecayNum

\* the guard with its bound off by one step: a giver may go one step below zero
GoesNegativeLoose(a, permutation, time_switched_) ==
    a[permutation[1]][1] - time_switched_ < 0 - time_switched_

\* the guard of lines 636, 753, 869, 1007: the giver would go below zero
GoesNegative(a, permutation, time_switched_) ==
    a[permutation[1]][1] - time_switched_ < 0

\* the transfer that gives the step to the second node and takes it from none
TransferGivingOnly(a, permutation, time_switched_) ==
    [a EXCEPT ![permutation[2]] = Some(a[permutation[2]][1] + time_switched_)]

\* lines 640-641: time_switched moves from the first node of the pair to the second
Transfer(a, permutation, time_switched_) ==
    [a EXCEPT ![permutation[1]] = Some(a[permutation[1]][1] - time_switched_),
              ![permutation[2]] = Some(a[permutation[2]][1] + time_switched_)]

\* the transfer made on self.allocations itself, without the deep copy
BuildCandidateAliased(a, permutation, time_switched_) ==
    [adjusted |-> Transfer(a, permutation, time_switched_),
     held |-> Transfer(a, permutation, time_switched_)]

\* adjusted_allocations = copy.deepcopy(self.allocations) and the transfer on the
\* copy: the candidate, and the allocations the program holds afterwards
BuildCandidate(a, permutation, time_switched_) ==
    [adjusted |-> Transfer(a, permutation, time_switched_), held |-> a]

\* the value of an evaluation the search makes
EU(p, time_allocations, original_allocations_inner_, subs) ==
    global_expected_utility(p, time_allocations, original_allocations_inner_, subs,
                            children).value

\* max([...]) of a non-empty list of values
RECURSIVE RMax(_)
RMax(s) == IF Len(s) = 1 THEN s[1]
           ELSE LET m == RMax(Tail(s)) IN IF RGe(s[1], m) THEN s[1] ELSE m

\* lines 671-676: every candidate whose value is the best is assigned in turn, so
\* the last of them is the one the program holds after the loop
BestIndex(values) ==
    LET best_allocation == RMax(values)
    IN  CHOOSE k \in 1..Len(values) :
            /\ values[k] = best_allocation
            /\ \A l \in (k + 1)..Len(values) : values[l] # best_allocation

---------------------------------------------------------------------------
(* naive_hill_climbing_inner, run to its return.  The outer searches call  *)
(* it in the middle of a scan step; the steps of a call made directly on a *)
(* subprogram are the actions further down, built from the same parts.     *)

\* self.subprogram_expression_type of program q
subprogram_expression_type(q) ==
    IF q = Outer THEN "none" ELSE IF shape = "cond" THEN "conditional" ELSE "for"

\* the test of the expression type that finds a taxed budget for every program
TaxedBudgetBoundAlways(q) == TRUE

\* lines 961-967: the if and the elif bind taxed_budget; there is no else
TaxedBudgetBound(q) == subprogram_expression_type(q) \in {"conditional", "for"}

\* lines 961-967
taxed_budget(q, budget_) ==
    IF subprogram_expression_type(q) = "conditional" THEN budget_ - Tau ELSE budget_

\* the inner scan that passes over a pair only for its giver going below zero
InnerSkipsNegativeOnly(a, permutation, time_switched_) ==
    \/ permutation[1] = permutation[2]
    \/ GoesNegative(a, permutation, time_switched_)

\* lines 995-1008: the pairs the inner scan passes over
InnerSkips(a, permutation, time_switched_) ==
    \/ permutation[1] = permutation[2]
    \/ ExprType(shape, permutation[1]) = "conditional"
    \/ ExprType(shape, permutation[2]) = "conditional"
    \/ ExprType(shape, permutation[1]) = "for"
    \/ ExprType(shape, permutation[2]) = "for"
    \/ GoesNegative(a, permutation, time_switched_)

\* lines 990-1019: one pair of the inner scan; built is the candidate if one is
\* made, found is the candidate if it is kept
InnerCandidate(q, a, permutation, time_switched_, subs) ==
    IF InnerSkips(a, permutation, time_switched_)
    THEN [held |-> a, built |-> <<>>, found |-> <<>>]
    ELSE LET c == BuildCandidate(a, permutation, time_switched_)
         IN  [held |-> c.held,
              built |-> <<c.adjusted>>,
              found |-> IF RGt(EU(q, c.adjusted, <<>>, subs), EU(q, c.held, <<>>, subs))
                        THEN <<<<c.adjusted>>>> ELSE <<>>]

\* lines 1048-1057, 671-676: the allocation the program holds after the commit loop
CommitBest(p, possible_local_max_, subs) ==
    possible_local_max_[BestIndex([k \in 1..Len(possible_local_max_) |->
                                      EU(p, possible_local_max_[k][1], <<>>, subs)])]

RECURSIVE InnerScan(_, _, _, _, _, _)
InnerScan(q, a, perms, time_switched_, possible_local_max_, subs) ==
    IF perms = <<>> THEN [held |-> a, possible_local_max |-> possible_local_max_]
    ELSE LET Rest(c) == InnerScan(q, c.held, Tail(perms), time_switched_,
                                  possible_local_max_ \o c.found, subs)
         IN  Rest(InnerCandidate(q, a, Head(perms), time_switched_, subs))

\* lines 979-1063: the while loop
RECURSIVE InnerRounds(_, _, _, _)
InnerRounds(q, a, time_switched_, subs) ==
    IF time_switched_ > Threshold
    THEN LET EndOfRound(r) ==
                 IF r.possible_local_max # <<>>
                 THEN InnerRounds(q, CommitBest(q, r.possible_local_max, subs)[1],
                                  time_switched_, subs)
                 ELSE InnerRounds(q, r.held, Decay(time_switched_), subs)
         IN  EndOfRound(InnerScan(q, a, permutations(a), time_switched_, <<>>, subs))
    ELSE a

\* the short circuit without its test of the expression type
ZeroedAllocationsAll(a) ==
    [i \in DOMAIN a |-> IF a[i] # None THEN Some(0) ELSE a[i]]

\* lines 1069-1072: the short circuit
ZeroedAllocations(a) ==
    [i \in DOMAIN a |->
        IF a[i] # None /\ ExprType(shape, i) # "conditional" THEN Some(0) ELSE a[i]]

\* the inner search that goes on from the allocations the subprogram holds
naive_hill_climbing_inner_resuming(q, st) ==
    IF taxed_budget(q, st.budget[q]) > 0
    THEN InnerRounds(q, st.allocations[q],
                     find_uniform_allocation(q, st.budget[q]), st.allocations)
    ELSE ZeroedAllocations(st.allocations[q])

\* naive_hill_climbing_inner(): the allocations subprogram q holds, and returns
naive_hill_climbing_inner(q, st) ==
    IF taxed_budget(q, st.budget[q]) > 0
    THEN InnerRounds(q, uniform_budget(q, st.ia_budget[q]),
                     find_uniform_allocation(q, st.budget[q]), st.allocations)
    ELSE ZeroedAllocations(st.allocations[q])

\* a change of budget that makes the allocations anew from the budget given
change_budget_reinitialising(q, new_budget, st) ==
    [st EXCEPT !.budget[q] = new_budget, !.ia_budget[q] = new_budget,
               !.allocations[q] = uniform_budget(q, new_budget)]

\* change_budget(new_budget)
change_budget(q, new_budget, st) ==
    [st EXCEPT !.budget[q] = new_budget, !.ia_budget[q] = new_budget]

\* lines 761-767 and 770-777: the branches are given the dispatch node's new time
\* and searched, the true branch first
BranchSearches(new_budget, st) ==
    LET Held(s, q, a) ==
            IF q = TrueSub
            THEN [s EXCEPT !.allocations[TrueSub] = a, !.true_allocations = a]
            ELSE [s EXCEPT !.allocations[FalseSub] = a, !.false_allocations = a]
        Searched(s, q) == Held(s, q, naive_hill_climbing_inner(q, s))
    IN  Searched(Searched(change_budget(FalseSub, new_budget,
                              change_budget(TrueSub, new_budget, st)), TrueSub), FalseSub)

\* lines 877-881 and 883-887: the same for the body of a loop
BodySearch(new_budget, st) ==
    LET Held(s, b) == [s EXCEPT !.allocations[ForSub] = b, !.for_allocations = b]
        Searched(s) == Held(s, naive_hill_climbing_inner(ForSub, s))
    IN  Searched(change_budget(ForSub, new_budget, st))

\* the inner searches set off only when the node that gives the time dispatches
InnerSearchesOfGiver(candidate, permutation, st) ==
    IF ExprType(shape, permutation[1]) = "conditional" /\ variant = "outer_conditional"
    THEN BranchSearches(candidate[permutation[1]][1], st)
    ELSE IF ExprType(shape, permutation[1]) = "for" /\ variant = "outer_for"
    THEN BodySearch(candidate[permutation[1]][1], st)
    ELSE st

\* the inner searches one candidate of an outer scan sets off
InnerSearchesOf(candidate, permutation, st) ==
    LET after(n, s) ==
            IF ExprType(shape, n) = "conditional" /\ variant = "outer_conditional"
            THEN BranchSearches(candidate[n][1], s)
            ELSE IF ExprType(shape, n) = "for" /\ variant = "outer_for"
            THEN BodySearch(candidate[n][1], s)
            ELSE s
    IN  after(permutation[2], after(permutation[1], st))

---------------------------------------------------------------------------
(* The states a program is constructed in                                   *)

MaxEvals == 2
\* the two types global_expected_utility knows, and one it does not
ExpectedUtilityTypes == {"approximate", "exact", "improper"}
FlatOrders == 1..3
DiamondOrder == 4
DispatchOrder == 5
HalfBudget == MaxBudget \div 2

\* the ways to split total ticks over n nodes, at least one tick each
RECURSIVE Compositions(_, _)
Compositions(n, total) ==
    IF n = 0 THEN (IF total = 0 THEN {<<>>} ELSE {})
    ELSE UNION {{<<t>> \o c : c \in Compositions(n - 1, total - t)} : t \in 1..total}

\* the budgets a program of k plain nodes is built with: a single node with every
\* budget up to MaxBudget, a longer chain with MaxBudget
BuiltBudgets(k) == IF k = 1 THEN 1..MaxBudget ELSE {MaxBudget}

RECURSIVE SumOfTimes(_, _)
SumOfTimes(a, i) ==
    IF i \notin DOMAIN a THEN 0
    ELSE (IF a[i] = None THEN 0 ELSE a[i][1]) + SumOfTimes(a, i + 1)

\* the allocation vectors the outer program may be given: every split of the
\* budget over its nodes, which leaves a dispatch node at least its overhead; the
\* branch nodes of a conditional either carry no time of their own or share one tick
DispatchSplits(total) == {c \in Compositions(3, total) : c[2] >= Tau}
InitialAllocations(s, k) ==
    IF s = "flat"
    THEN {[i \in 0..(k - 1) |-> Some(c[i + 1])] :
              c \in UNION {Compositions(k, b) : b \in BuiltBudgets(k)}}
    ELSE IF s = "diamond"
    THEN {[i \in 0..(k - 1) |-> Some(c[i + 1])] : c \in Compositions(k, DiamondBudget)}
    ELSE {[i \in 0..(k - 1) |->
              IF i \in {1, 2} THEN None
              ELSE Some(c[IF i = 0 THEN 1 ELSE i - 1])] : c \in DispatchSplits(MaxBudget)}
         \cup
         {[i \in 0..(k - 1) |->
              IF i \in {1, 2} THEN Some(Tau)
              ELSE Some(c[IF i = 0 THEN 1 ELSE i - 1])] :
                  c \in IF s = "cond" THEN DispatchSplits(MaxBudget - Tau) ELSE {}}

\* the allocations a subprogram holds once it has been given budget_
InitialSubAllocations(s, k, q, budget_) ==
    LET plain == {n \in SeqSet(DagNodes(s, k, q)) : ~IsDispatch(s, n)}
        u == (budget_ - Tau * (Len(DagNodes(s, k, q)) - Cardinality(plain)))
                 \div Cardinality(plain)
    IN  [i \in 0..(k - 1) |->
            IF i \in plain THEN Some(IF u > 0 THEN u ELSE 0)
            ELSE IF i \in SeqSet(DagNodes(s, k, q)) THEN Some(Tau)
            ELSE None]

Init ==
    /\ \E sk \in ({"flat"} \X FlatOrders) \cup {<<"diamond", DiamondOrder>>,
                                                <<"cond", DispatchOrder>>,
                                                <<"for", DispatchOrder>>} :
          /\ shape = sk[1]
          /\ order = sk[2]
          /\ rates \in {r \in [0..(sk[2] - 1) -> BranchRatePairs] :
                            /\ ~Dispatching(sk[1]) => \A n \in DOMAIN r : r[n] \in RatePairs
                            /\ Dispatching(sk[1]) => /\ r[Dispatch] = <<1, 1>>
                                                  /\ r[Outer] = <<1, 1>>
                                                  /\ r[sk[2] - 1] = <<1, 1>>}
          /\ parents = [p \in Programs(sk[1]) |-> InitParents(sk[1], sk[2], p)]
          /\ children = [p \in Programs(sk[1]) |-> InitChildren(sk[1], sk[2], p)]
          /\ \E a \in InitialAllocations(sk[1], sk[2]) :
                /\ budget = [p \in Programs(sk[1]) |->
                                IF p # Outer THEN a[Dispatch][1]
                                ELSE IF ~Dispatching(sk[1]) THEN SumOfTimes(a, 0)
                                ELSE MaxBudget]
                /\ ia_budget = budget
                /\ allocations =
                       [p \in Programs(sk[1]) |->
                           IF p = Outer THEN a
                           ELSE InitialSubAllocations(sk[1], sk[2], p, a[Dispatch][1])]
    /\ expected_utility_type \in ExpectedUtilityTypes
    /\ expected_utility_type = "exact" =>
           \A n \in 0..(order - 1) : allocations[Outer][n] # None
    /\ original_allocations_inner = <<>>
    /\ pc = "idle"
    /\ prog = Outer
    /\ variant = "none"
    /\ time_switched = 0
    /\ todo = <<>>
    /\ possible_local_max = <<>>
    /\ true_allocations = <<>>
    /\ false_allocations = <<>>
    /\ for_allocations = <<>>
    /\ scan = None
    /\ evals = <<>>
    /\ start = None
    /\ improved = FALSE

---------------------------------------------------------------------------
(* The operations                                                           *)

dagVars == <<shape, order, expected_utility_type, rates, parents>>
searchVars == <<pc, prog, variant, time_switched, todo, possible_local_max,
                true_allocations, false_allocations, for_allocations, scan, start,
                improved>>

\* what a search step hands to, and takes back from, the inner searches
SearchState ==
    [budget |-> budget, ia_budget |-> ia_budget, allocations |-> allocations,
     true_allocations |-> true_allocations, false_allocations |-> false_allocations,
     for_allocations |-> for_allocations]

\* the override an evaluation is handed: none, or the subprograms' uniform
\* allocations for half the budget
Overrides(p) ==
    IF p = Outer /\ Dispatching(shape)
    THEN {<<>>, [i \in 1..Len(SubprogramsOf(shape)) |->
                    uniform_budget(SubprogramsOf(shape)[i], HalfBudget)]}
    ELSE {<<>>}

\* the exact evaluator reads the time of every contract node of the DAG
Evaluable(p) ==
    expected_utility_type = "exact" =>
        \A n \in SeqSet(DagNodes(shape, order, p)) :
            IsDispatch(shape, n) \/ allocations[p][n] # None

\* every subprogram has the budget it was built with: the time the outer
\* allocation gives its dispatch node
BudgetsAsBuilt ==
    \A r \in Programs(shape) \ {Outer} : budget[r] = allocations[Outer][Dispatch][1]

\* program p evaluates the allocations it holds
Evaluate(p, original_allocations_inner_) ==
    /\ pc = "idle"
    /\ Len(evals) < MaxEvals
    /\ evals # <<>> => evals[1].p = p
    /\ BudgetsAsBuilt
    /\ Evaluable(p)
    /\ LET Returned(r) ==
               /\ evals' = Append(evals, [p |-> p, time_allocations |-> allocations[p],
                                          original_allocations_inner |->
                                              original_allocations_inner_,
                                          value |-> r.value, raised |-> r.raised,
                                          queries |-> r.queries,
                                          current_qualities |-> r.current_qualities])
               /\ allocations' = r.subs
               /\ children' = r.children
       IN  Returned(global_expected_utility(p, allocations[p],
                        original_allocations_inner_, allocations, children))
    /\ UNCHANGED <<dagVars, searchVars, budget, ia_budget, original_allocations_inner>>

\* change_budget(new_budget), called on a subprogram that still has the budget it
\* was built with, or on the outer program when a search has returned
ChangeBudget(q, new_budget) ==
    /\ \/ pc = "idle" /\ evals = <<>> /\ q # Outer /\ BudgetsAsBuilt
       \/ pc = "done" /\ q = Outer
    /\ new_budget # budget[q]
    /\ LET st == change_budget(q, new_budget, SearchState)
       IN  /\ budget' = st.budget
           /\ ia_budget' = st.ia_budget
           /\ allocations' = st.allocations
    /\ UNCHANGED <<dagVars, searchVars, children, original_allocations_inner, evals>>

\* the head of a loop that goes round once more at the threshold
LoopHeadInclusive(time_switched_, a) ==
    IF time_switched_ >= Threshold
    THEN [pc |-> "scan", todo |-> permutations(a)]
    ELSE [pc |-> "done", todo |-> <<>>]

\* the head of the while loop: another round, or the return
LoopHead(time_switched_, a) ==
    IF time_switched_ > Threshold
    THEN [pc |-> "scan", todo |-> permutations(a)]
    ELSE [pc |-> "done", todo |-> <<>>]

\* naive_hill_climbing_outer(), up to the first test of the loop it dispatches to
StartOuter ==
    /\ pc = "idle"
    /\ BudgetsAsBuilt
    /\ expected_utility_type \in {"approximate", "exact"}
    /\ expected_utility_type = "exact" => ~Dispatching(shape)
    /\ LET branches == [i \in 1..Len(SubprogramsOf(shape)) |->
                           allocations[SubprogramsOf(shape)[i]]]
           head == LoopHead(find_uniform_allocation(Outer, budget[Outer]),
                            allocations[Outer])
       IN  /\ variant' = IF shape = "cond" THEN "outer_conditional"
                         ELSE IF shape = "for" THEN "outer_for" ELSE "base"
           /\ true_allocations' = IF shape = "cond" THEN branches[1] ELSE <<>>
           /\ false_allocations' = IF shape = "cond" THEN branches[2] ELSE <<>>
           /\ for_allocations' = IF shape = "for" THEN branches[1] ELSE <<>>
           /\ original_allocations_inner' =
                  IF ~Dispatching(shape) THEN original_allocations_inner ELSE branches
           /\ start' = Some([allocations |-> allocations[Outer],
                             original_allocations_inner |->
                                 IF ~Dispatching(shape) THEN <<>> ELSE branches])
           /\ pc' = head.pc
           /\ todo' = head.todo
    /\ prog' = Outer
    /\ time_switched' = find_uniform_allocation(Outer, budget[Outer])
    /\ possible_local_max' = <<>>
    /\ scan' = None
    /\ improved' = FALSE
    /\ evals' = <<>>
    /\ UNCHANGED <<dagVars, children, budget, ia_budget, allocations>>

\* line 970 reads a taxed_budget that lines 961-967 did not bind: the call ends in
\* an UnboundLocalError and the program is as it was
InnerRaises(q) ==
    /\ pc = "idle"
    /\ ~TaxedBudgetBound(q)
    /\ pc' = "raised"
    /\ prog' = q
    /\ variant' = "inner"
    /\ UNCHANGED <<dagVars, children, budget, ia_budget, allocations,
                   original_allocations_inner, time_switched, todo, possible_local_max,
                   true_allocations, false_allocations, for_allocations, scan, evals,
                   start, improved>>

\* naive_hill_climbing_inner() called on program q, up to the first test of its
\* loop, or to its return when the taxed budget leaves nothing to search
StartInner(q) ==
    /\ pc = "idle"
    /\ TaxedBudgetBound(q)
    /\ expected_utility_type = "approximate"
    /\ IF taxed_budget(q, budget[q]) > 0
       THEN LET a == uniform_budget(q, ia_budget[q])
                head == LoopHead(find_uniform_allocation(q, budget[q]), a)
            IN  /\ allocations' = [allocations EXCEPT ![q] = a]
                /\ time_switched' = find_uniform_allocation(q, budget[q])
                /\ pc' = head.pc
                /\ todo' = head.todo
       ELSE /\ allocations' = [allocations EXCEPT ![q] = ZeroedAllocations(allocations[q])]
            /\ time_switched' = 0
            /\ pc' = "done"
            /\ todo' = <<>>
    /\ prog' = q
    /\ variant' = "inner"
    /\ start' = Some([allocations |-> allocations[q],
                      original_allocations_inner |-> <<>>])
    /\ possible_local_max' = <<>>
    /\ scan' = None
    /\ improved' = FALSE
    /\ evals' = <<>>
    /\ UNCHANGED <<dagVars, children, budget, ia_budget, original_allocations_inner,
                   true_allocations, false_allocations, for_allocations>>


\* the test that also keeps a candidate whose value equals the baseline
ImprovesOrEquals(score, baseline) == ~RGt(baseline, score)

\* lines 643, 780, 895: the test that keeps a candidate
Improves(score, baseline) == RGt(score, baseline)

\* the scan step scored a candidate above the baseline: score > baseline
ScoredAbove(scan_) ==
    /\ scan_ # None
    /\ scan_[1].score[1] * scan_[1].baseline[2] > scan_[1].baseline[1] * scan_[1].score[2]

\* what a scan step records of the candidate it scored
Scored(permutation, adjusted, inner, score, baseline) ==
    Some([permutation |-> permutation, adjusted |-> adjusted, inner |-> inner,
          score |-> score, baseline |-> baseline])

\* lines 626-667: the base search takes the next pair of its scan
ScanBase ==
    /\ pc = "scan"
    /\ variant = "base"
    /\ todo # <<>>
    /\ LET permutation == Head(todo)
           a == allocations[prog]
       IN  IF permutation[1] = permutation[2] \/ GoesNegative(a, permutation, time_switched)
           THEN /\ scan' = None
                /\ UNCHANGED <<allocations, possible_local_max>>
           ELSE LET c == BuildCandidate(a, permutation, time_switched)
                    Compared(subs, score, baseline) ==
                        /\ allocations' = subs
                        /\ possible_local_max' =
                               IF Improves(score, baseline)
                               THEN Append(possible_local_max, <<c.adjusted>>)
                               ELSE possible_local_max
                        /\ scan' = Scored(permutation, c.adjusted, <<>>, score, baseline)
                    Evaluated(subs) ==
                        Compared(subs, EU(prog, c.adjusted, <<>>, subs),
                                 EU(prog, c.held, <<>>, subs))
                IN  Evaluated([allocations EXCEPT ![prog] = c.held])
    /\ todo' = Tail(todo)
    /\ improved' = (improved \/ ScoredAbove(scan'))
    /\ UNCHANGED <<dagVars, children, budget, ia_budget, original_allocations_inner,
                   pc, prog, variant, time_switched, true_allocations,
                   false_allocations, for_allocations, evals, start>>

\* lines 984-1045: the inner search takes the next pair of its scan
ScanInner ==
    /\ pc = "scan"
    /\ variant = "inner"
    /\ todo # <<>>
    /\ LET permutation == Head(todo)
           Compared(c) ==
               /\ allocations' = [allocations EXCEPT ![prog] = c.held]
               /\ possible_local_max' = possible_local_max \o c.found
               /\ scan' = IF c.built = <<>> THEN None
                          ELSE Scored(permutation, c.built[1], <<>>,
                                      EU(prog, c.built[1], <<>>, allocations),
                                      EU(prog, c.held, <<>>, allocations))
       IN  Compared(InnerCandidate(prog, allocations[prog], permutation, time_switched,
                                   allocations))
    /\ todo' = Tail(todo)
    /\ improved' = (improved \/ ScoredAbove(scan'))
    /\ UNCHANGED <<dagVars, children, budget, ia_budget, original_allocations_inner,
                   pc, prog, variant, time_switched, true_allocations,
                   false_allocations, for_allocations, evals, start>>

\* lines 740-809: the outer search over a conditional takes the next pair of its
\* scan; the candidate is scored with no override, so with the allocations the
\* branches hold at that moment
ScanOuterConditional ==
    /\ pc = "scan"
    /\ variant = "outer_conditional"
    /\ todo # <<>>
    /\ LET permutation == Head(todo)
           a == allocations[prog]
       IN  IF permutation[1] = permutation[2] \/ GoesNegative(a, permutation, time_switched)
           THEN /\ scan' = None
                /\ UNCHANGED <<allocations, budget, ia_budget, possible_local_max,
                               true_allocations, false_allocations>>
           ELSE LET c == BuildCandidate(a, permutation, time_switched)
                    Compared(st, score, baseline) ==
                        /\ allocations' = st.allocations
                        /\ budget' = st.budget
                        /\ ia_budget' = st.ia_budget
                        /\ possible_local_max' =
                               IF Improves(score, baseline)
                               THEN Append(possible_local_max,
                                           <<c.adjusted, st.true_allocations,
                                             st.false_allocations>>)
                               ELSE possible_local_max
                        /\ true_allocations' =
                               IF original_allocations_inner # <<>>
                               THEN original_allocations_inner[1] ELSE st.true_allocations
                        /\ false_allocations' =
                               IF original_allocations_inner # <<>>
                               THEN original_allocations_inner[2] ELSE st.false_allocations
                        /\ scan' = Scored(permutation, c.adjusted,
                                          <<st.true_allocations, st.false_allocations>>,
                                          score, baseline)
                    Evaluated(st) ==
                        Compared(st, EU(prog, c.adjusted, <<>>, st.allocations),
                                 EU(prog, c.held, original_allocations_inner,
                                    st.allocations))
                IN  Evaluated(InnerSearchesOf(c.adjusted, permutation,
                                  [SearchState EXCEPT !.allocations[prog] = c.held]))
    /\ todo' = Tail(todo)
    /\ improved' = (improved \/ ScoredAbove(scan'))
    /\ UNCHANGED <<dagVars, children, original_allocations_inner, pc, prog, variant,
                   time_switched, for_allocations, evals, start>>

\* lines 856-927: the outer search over a loop takes the next pair of its scan;
\* the candidate is scored with the body's allocations as the override
ScanOuterFor ==
    /\ pc = "scan"
    /\ variant = "outer_for"
    /\ todo # <<>>
    /\ LET permutation == Head(todo)
           a == allocations[prog]
       IN  IF permutation[1] = permutation[2] \/ GoesNegative(a, permutation, time_switched)
           THEN /\ scan' = None
                /\ UNCHANGED <<allocations, budget, ia_budget, possible_local_max,
                               for_allocations>>
           ELSE LET c == BuildCandidate(a, permutation, time_switched)
                    Compared(st, score, baseline) ==
                        /\ allocations' = st.allocations
                        /\ budget' = st.budget
                        /\ ia_budget' = st.ia_budget
                        /\ possible_local_max' =
                               IF Improves(score, baseline)
                               THEN Append(possible_local_max,
                                           <<c.adjusted, st.for_allocations>>)
                               ELSE possible_local_max
                        /\ for_allocations' =
                               IF original_allocations_inner # <<>>
                               THEN original_allocations_inner[1] ELSE st.for_allocations
                        /\ scan' = Scored(permutation, c.adjusted, <<st.for_allocations>>,
                                          score, baseline)
                    Evaluated(st) ==
                        Compared(st, EU(prog, c.adjusted, <<st.for_allocations>>,
                                        st.allocations),
                                 EU(prog, c.held, original_allocations_inner,
                                    st.allocations))
                IN  Evaluated(InnerSearchesOf(c.adjusted, permutation,
                                  [SearchState EXCEPT !.allocations[prog] = c.held]))
    /\ todo' = Tail(todo)
    /\ improved' = (improved \/ ScoredAbove(scan'))
    /\ UNCHANGED <<dagVars, children, original_allocations_inner, pc, prog, variant,
                   time_switched, true_allocations, false_allocations, evals, start>>

\* lines 671-676, 812-827, 932-942, 1048-1057: the scan found candidates; the
\* program takes the best one, the outer searches its branch allocations too
Commit ==
    /\ pc = "scan"
    /\ todo = <<>>
    /\ possible_local_max # <<>>
    /\ LET Committed(j, head) ==
               /\ allocations' = [allocations EXCEPT ![prog] = j[1]]
               /\ original_allocations_inner' =
                      IF variant \in {"outer_conditional", "outer_for"} THEN Tail(j)
                      ELSE original_allocations_inner
               /\ pc' = head.pc
               /\ todo' = head.todo
           Best(j) == Committed(j, LoopHead(time_switched, j[1]))
       IN  Best(CommitBest(prog, possible_local_max, allocations))
    /\ possible_local_max' = <<>>
    /\ scan' = None
    /\ UNCHANGED <<dagVars, children, budget, ia_budget, prog, variant, time_switched,
                   true_allocations, false_allocations, for_allocations, evals, start,
                   improved>>

\* lines 680, 831, 946, 1061: the scan found nothing; the step decays
DecayStep ==
    /\ pc = "scan"
    /\ todo = <<>>
    /\ possible_local_max = <<>>
    /\ LET head == LoopHead(Decay(time_switched), allocations[prog])
       IN  /\ pc' = head.pc
           /\ todo' = head.todo
    /\ time_switched' = Decay(time_switched)
    /\ scan' = None
    /\ UNCHANGED <<dagVars, children, budget, ia_budget, allocations,
                   original_allocations_inner, prog, variant, possible_local_max,
                   true_allocations, false_allocations, for_allocations, evals, start,
                   improved>>

SearchStep ==
    ScanBase \/ ScanInner \/ ScanOuterConditional \/ ScanOuterFor \/ Commit \/ DecayStep

Next ==
    \/ \E p \in Programs(shape) : \E o \in Overrides(p) : Evaluate(p, o)
    \/ \E q \in Programs(shape) : \E b \in {0, Tau, HalfBudget, MaxBudget - 2} : ChangeBudget(q, b)
    \/ StartOuter
    \/ \E q \in Programs(shape) : StartInner(q)
    \/ \E q \in Programs(shape) : InnerRaises(q)
    \/ SearchStep

Spec == Init /\ [][Next]_vars

\* A search is sequential code: once started, its next step is always taken.  The
\* steps are named by what each does to the scan list and to the candidate list: a
\* scan step takes the head off todo, the commit empties possible_local_max.
ScanStep == pc = "scan" /\ todo # <<>> /\ todo' = Tail(todo)
CommitStep ==
    pc = "scan" /\ todo = <<>> /\ possible_local_max # <<>> /\ possible_local_max' = <<>>
FairSpec ==
    Spec /\ WF_todo(ScanStep) /\ WF_possible_local_max(CommitStep) /\ WF_vars(DecayStep)

---------------------------------------------------------------------------
(* The properties                                                           *)

NonNegative(a) == \A i \in DOMAIN a : a[i] # None => a[i][1] >= 0

\* the value the program that ran the search gives an allocation of its own
\* together with branch (body) allocations
ValueWith(a, inner) == EU(prog, a, inner, allocations)

\* C1: every value global_expected_utility has returned, for allocations without
\* negative times, lies in [0, 1], with the approximate and with the exact evaluator.
C1_ValueInUnitInterval ==
    \A i \in 1..Len(evals) :
        (evals[i].raised = "" /\ NonNegative(evals[i].time_allocations)) =>
            RGe(evals[i].value, RZero) /\ RGe(ROne, evals[i].value)

\* C2: when a hill-climbing run has returned, the expected utility of the allocation
\* it returned, evaluated with the branch (body) allocations it returned, is at
\* least that of the allocation held when the run started.
C2_ResultNoWorseThanStart ==
    pc = "done" =>
        RGe(ValueWith(allocations[prog], original_allocations_inner),
            ValueWith(start[1].allocations, start[1].original_allocations_inner))

\* C3: a search that starts from allocations without negative times never holds,
\* keeps as a candidate or scores an allocation with a negative time: a transfer
\* that would take the giving node below zero is passed over.
C3_NoNegativeTime ==
    /\ \A p \in Programs(shape) : NonNegative(allocations[p])
    /\ \A k \in 1..Len(possible_local_max) : NonNegative(possible_local_max[k][1])
    /\ scan # None => NonNegative(scan[1].adjusted)

\* C3, its case: a search has committed a transfer that left the giving node at
\* exactly zero.
C3_Witness ==
    /\ start # None
    /\ NonNegative(start[1].allocations)
    /\ variant # "inner"
    /\ \E i \in DOMAIN allocations[prog] :
          /\ allocations[prog][i] = Some(0)
          /\ start[1].allocations[i] # None
          /\ start[1].allocations[i][1] > 0

\* C4: every hill-climbing run that has entered its loop returns.
C4_SearchTerminates == (pc = "scan") ~> (pc = "done")

\* C5: two calls of global_expected_utility in a row on the same program with the
\* same allocation vector and the same override return the same value.
C5_SameValueTwice ==
    \A i \in 1..(Len(evals) - 1) :
        (/\ evals[i].p = evals[i + 1].p
         /\ evals[i].time_allocations = evals[i + 1].time_allocations
         /\ evals[i].original_allocations_inner = evals[i + 1].original_allocations_inner)
        => evals[i].value = evals[i + 1].value

\* C6: a call of global_expected_utility leaves every node's parent list and child
\* list and every program's allocations, the vector passed in among them, as they
\* were.
C6_EvaluationIsFrameClean ==
    [][Len(evals') > Len(evals) =>
          (parents' = parents /\ children' = children /\ allocations' = allocations)]_vars

\* C7: when the two branch nodes of the conditional carry equal time in the
\* allocation a search starts from, they carry equal time in every allocation the
\* search commits.
C7_BranchSymmetry ==
    (/\ shape = "cond"
     /\ start # None
     /\ prog = Outer
     /\ start[1].allocations[TrueNode] = start[1].allocations[FalseNode])
    => allocations[Outer][TrueNode] = allocations[Outer][FalseNode]

\* C8: in the outer search over a conditional, the score of a candidate is its value
\* under the branch allocations that belong to it: those of the last accepted
\* candidate, or those its own branch searches returned.
C8_ScoreIgnoresRejectedBranches ==
    (variant = "outer_conditional" /\ scan # None) =>
        scan[1].score = ValueWith(scan[1].adjusted, scan[1].inner)

\* C9: while a round scans its pairs the allocation the program holds does not
\* change; at the end of the round it stays or becomes one of the candidates kept.
C9_BaselineChangesOnlyAtCommit ==
    [][/\ (pc = "scan" /\ todo # <<>>) => allocations'[prog] = allocations[prog]
       /\ (pc = "scan" /\ todo = <<>>) =>
              \/ allocations'[prog] = allocations[prog]
              \/ \E k \in 1..Len(possible_local_max) :
                    allocations'[prog] = possible_local_max[k][1]]_vars

\* C9, its case: a scan has scored a candidate that differs from the held
\* allocation and did not keep it.
C9_Witness ==
    /\ pc = "scan"
    /\ scan # None
    /\ ~RGt(scan[1].score, scan[1].baseline)
    /\ scan[1].adjusted # allocations[prog]
    /\ allocations[prog] = start[1].allocations

\* C10: an inner search whose taxed budget is not positive returns at once; the
\* allocations it returns are those the subprogram held, with every time of a node
\* that is no conditional set to zero, nulls left null and a conditional's time kept.
C10_DegenerateInnerSearch ==
    (variant = "inner" /\ taxed_budget(prog, budget[prog]) <= 0) =>
        /\ pc = "done"
        /\ possible_local_max = <<>>
        /\ \A i \in DOMAIN allocations[prog] :
              allocations[prog][i] =
                  IF start[1].allocations[i] = None THEN None
                  ELSE IF ExprType(shape, i) = "conditional" THEN start[1].allocations[i]
                  ELSE Some(0)

\* C10, its case: a conditional branch was given a budget the overhead uses up and
\* its inner search zeroed a time that was positive, next to the conditional's own.
C10_Witness ==
    /\ variant = "inner"
    /\ pc = "done"
    /\ subprogram_expression_type(prog) = "conditional"
    /\ taxed_budget(prog, budget[prog]) <= 0
    /\ allocations[prog] # start[1].allocations
    /\ allocations[prog][Dispatch] = Some(Tau)

\* C11: when expected_utility_type is neither "exact" nor "approximate", a call of
\* global_expected_utility raises ValueError, returns no value and leaves the
\* allocations of the program and of its subprograms as they were.
C11_ImproperTypeRaises ==
    [][(Len(evals') > Len(evals) /\ expected_utility_type \notin {"exact", "approximate"})
          => /\ evals'[Len(evals')].raised = "ValueError"
             /\ evals'[Len(evals')].value = None
             /\ allocations' = allocations]_vars

\* C11, its case: a program of an improper type that has subprograms was evaluated.
C11_Witness ==
    /\ expected_utility_type = "improper"
    /\ shape = "cond"
    /\ evals # <<>>
    /\ evals[1].raised = "ValueError"

\* C12: change_budget sets the budget of the program and of its initializer to the
\* new budget and changes nothing else: not the allocations, not the retained inner
\* allocations, not the programs or their DAGs.
C12_ChangeBudgetFrame ==
    [][(pc \in {"idle", "done"} /\ budget' # budget)
          => /\ \E q \in Programs(shape) : \E b \in 0..MaxBudget :
                   /\ budget' = [budget EXCEPT ![q] = b]
                   /\ ia_budget' = [ia_budget EXCEPT ![q] = b]
             /\ allocations' = allocations
             /\ original_allocations_inner' = original_allocations_inner
             /\ <<shape, order, parents, children>>' = <<shape, order, parents, children>>]_vars

\* C12, its case: the outer program, holding the inner allocations a search
\* retained, was given half its budget, and its allocations still sum to more.
C12_Witness ==
    /\ pc = "done"
    /\ Dispatching(shape)
    /\ original_allocations_inner # <<>>
    /\ budget[Outer] = HalfBudget
    /\ ia_budget[Outer] = HalfBudget
    /\ SumOfTimes(allocations[Outer], 0) > HalfBudget

\* the profile's probability times quality of node 0 at the time given, no parents
ProfileValue(time) ==
    LET qualities == query_quality_list_on_interval(time, 0, <<>>)
        q == average_quality(qualities)
    IN  RMul(query_probability_contract_expression(q, qualities), Rat(q, QD))

\* C13: for a program of a single node that holds the whole budget,
\* global_expected_utility returns the profile's probability times quality of that
\* node at that time, with the approximate and with the exact evaluator.
C13_SingleNodeValue ==
    \A i \in 1..Len(evals) :
        (/\ shape = "flat"
         /\ order = 1
         /\ evals[i].raised = ""
         /\ evals[i].time_allocations[0] = Some(budget[Outer]))
        => evals[i].value = ProfileValue(budget[Outer])

\* C14: in a search of the outer program over a conditional or a loop, the time of
\* the dispatch node is the same in every allocation committed as in the one the
\* search started from: no accepted move takes time from it or gives time to it.
C14_DispatchTimeFixed ==
    (Dispatching(shape) /\ start # None /\ prog = Outer)
    => allocations[Outer][Dispatch] = start[1].allocations[Dispatch]

\* C15: whenever a search commits a candidate, the value of the allocation
\* committed, with the branch (body) allocations committed with it, is greater than
\* the value of the allocation it replaces with the branch allocations retained
\* before.
C15_CommitStrictlyImproves ==
    [][(pc = "scan" /\ todo = <<>> /\ possible_local_max # <<>>)
          => RGt(EU(prog, allocations'[prog], original_allocations_inner', allocations'),
                 EU(prog, allocations[prog], original_allocations_inner, allocations))]_vars

\* the first of the candidates kept whose value is the highest
FirstBest(values) ==
    CHOOSE k \in 1..Len(values) :
        /\ values[k] = RMax(values)
        /\ \A l \in 1..(k - 1) : values[l] # RMax(values)

\* C16: at the end of a round that kept candidates, the allocation committed is the
\* candidate of the highest value, and of several such the one found first.
C16_CommitsFirstBest ==
    [][(pc = "scan" /\ todo = <<>> /\ possible_local_max # <<>>)
          => allocations'[prog] =
                 possible_local_max[FirstBest(
                     [k \in 1..Len(possible_local_max) |->
                         EU(prog, possible_local_max[k][1], <<>>, allocations)])][1]]_vars

\* C17: the step never grows: it stays while a round scans and when the round
\* commits a candidate, it is divided by decay when the round kept none, and the
\* search goes round again only while the step is above the threshold.
C17_StepDecaysOnlyOnEmptyRounds ==
    [][pc = "scan"
          => /\ time_switched > Threshold
             /\ time_switched' <= time_switched
             /\ (todo # <<>> \/ possible_local_max # <<>>) => time_switched' = time_switched
             /\ (todo = <<>> /\ possible_local_max = <<>>)
                    => time_switched' = Decay(time_switched)
             /\ pc' = "done" <=> time_switched' <= Threshold]_vars

\* C17, its case: a search has returned with the step at the threshold or below
\* after rounds that committed and rounds that decayed.
C17_Witness ==
    /\ pc = "done"
    /\ variant \in {"base", "inner"}
    /\ 0 < time_switched
    /\ time_switched <= Threshold
    /\ allocations[prog] # start[1].allocations

\* the allocations of the programs with every subprogram holding its part of the
\* override
HoldingOverride(subs, original_allocations_inner_) ==
    [q \in DOMAIN subs |->
        IF q = Outer \/ original_allocations_inner_ = <<>> THEN subs[q]
        ELSE original_allocations_inner_[q]]

\* C18: a call of the approximate evaluator with an override evaluates the dispatch
\* node with its subprograms holding the override, and after the call every
\* program's allocations are what they were before it.
C18_OverrideRestored ==
    [][(/\ Len(evals') > Len(evals)
        /\ expected_utility_type = "approximate"
        /\ evals'[Len(evals')].original_allocations_inner # <<>>)
          => /\ allocations' = allocations
             /\ evals'[Len(evals')].value =
                    EU(evals'[Len(evals')].p, evals'[Len(evals')].time_allocations, <<>>,
                       HoldingOverride(allocations,
                           evals'[Len(evals')].original_allocations_inner))]_vars

\* C18, its case: the approximate evaluator was called with an override that is
\* not what the subprograms hold, and returned another value than without it.
C18_Witness ==
    /\ expected_utility_type = "approximate"
    /\ evals # <<>>
    /\ evals[1].original_allocations_inner # <<>>
    /\ evals[1].original_allocations_inner[1] # allocations[1]
    /\ evals[1].value # EU(evals[1].p, evals[1].time_allocations, <<>>, allocations)

\* the entries of an allocation vector that the approximate evaluator counts
Counted(p, time_allocations) ==
    {i \in 0..(order - 1) :
        /\ time_allocations[i] # None
        /\ ~(IsDispatch(shape, i) /\ InSubtree(shape, p, i))}

\* the probability times the quality that entry i contributes
Contribution(p, time_allocations, subs, i) ==
    IF ExprType(shape, i) = "conditional"
    THEN RMul(query_probability_and_quality_from_conditional_expression(subs)[1],
              query_probability_and_quality_from_conditional_expression(subs)[2])
    ELSE IF ExprType(shape, i) = "for"
    THEN RMul(query_probability_and_quality_from_for_expression(subs)[1],
              query_probability_and_quality_from_for_expression(subs)[2])
    ELSE LET qualities ==
                 query_quality_list_on_interval(time_allocations[i][1], i,
                     find_parent_qualities(p, i, time_allocations))
         IN  RMul(query_probability_contract_expression(average_quality(qualities),
                                                        qualities),
                  Rat(average_quality(qualities), QD))

RECURSIVE ProductOver(_, _, _, _)
ProductOver(S, p, time_allocations, subs) ==
    IF S = {} THEN ROne
    ELSE LET i == CHOOSE i \in S : TRUE
         IN  RMul(Contribution(p, time_allocations, subs, i),
                  ProductOver(S \ {i}, p, time_allocations, subs))

\* C19: the value the approximate evaluator returns is the product of the
\* probabilities times the product of the qualities of exactly the entries with a
\* time whose node is no conditional or for node in a subtree.
C19_ApproximateIsProduct ==
    \A i \in 1..Len(evals) :
        expected_utility_type = "approximate" =>
            evals[i].value =
                ProductOver(Counted(evals[i].p, evals[i].time_allocations), evals[i].p,
                            evals[i].time_allocations,
                            HoldingOverride(allocations,
                                            evals[i].original_allocations_inner))

\* C19, its case: the outer program over a conditional was evaluated with null
\* entries in its vector, and the value is not zero.
C19_Witness ==
    /\ expected_utility_type = "approximate"
    /\ shape = "cond"
    /\ evals # <<>>
    /\ evals[1].p = Outer
    /\ evals[1].time_allocations[TrueNode] = None
    /\ evals[1].value # RZero
    /\ evals[1].value # ROne

\* the probability of the qualities q of a chain, node by node given its parent's,
\* times the utility of q
AssignmentValue(time_allocations, q) ==
    RMul(RProd([j \in 1..order |->
                   query_probability_contract_expression(q[j - 1],
                       query_quality_list_on_interval(time_allocations[j - 1][1], j - 1,
                           IF j < order THEN <<Some(q[j])>> ELSE <<>>))]),
         RProd([j \in 1..order |-> Rat(q[j - 1], QD)]))

RECURSIVE SumOverAssignments(_, _)
SumOverAssignments(Q, time_allocations) ==
    IF Q = {} THEN RZero
    ELSE LET q == CHOOSE q \in Q : TRUE
         IN  RAdd(AssignmentValue(time_allocations, q),
                  SumOverAssignments(Q \ {q}, time_allocations))

\* the exact expectation: the sum over every assignment of a possible quality to
\* every node
ExactExpectation(time_allocations) ==
    SumOverAssignments([0..(order - 1) -> SeqSet(possible_qualities)], time_allocations)

\* C20: for a chain of two or three plain nodes the exact evaluator returns the
\* exact expectation: the sum over the assignments of a quality to every node, the
\* root among them, of the probability of the assignment times its utility.
C20_ExactIsExpectation ==
    \A i \in 1..Len(evals) :
        (expected_utility_type = "exact" /\ shape = "flat" /\ order \in {2, 3})
        => evals[i].value = ExactExpectation(evals[i].time_allocations)

\* C26: a search conserves the total it allocates: every candidate a scan step
\* builds and every allocation a round commits has the same sum of times as the
\* allocation the program held before the step.
C26_TransferConservesTotal ==
    [][pc = "scan"
          => /\ SumOfTimes(allocations'[prog], 0) = SumOfTimes(allocations[prog], 0)
             /\ scan' # None
                    => SumOfTimes(scan'[1].adjusted, 0) = SumOfTimes(allocations[prog], 0)]_vars

\* C26, its case: a round has committed a candidate and the next round has built
\* another one.
C26_Witness ==
    /\ pc = "scan"
    /\ scan # None
    /\ scan[1].adjusted # allocations[prog]
    /\ allocations[prog] # start[1].allocations
    /\ variant \in {"base", "outer_conditional", "outer_for"}

\* C25: an inner search that has a budget to search with trades no time with a
\* conditional or for node and starts no other search: through every candidate
\* and every commit the dispatch nodes of its allocation keep their time, and no
\* budget and no other program's allocations change.
C25_InnerLeavesDispatchAlone ==
    [][(pc = "scan" /\ variant = "inner")
          => /\ \A n \in DispatchNodes(prog) :
                   /\ allocations'[prog][n] = allocations[prog][n]
                   /\ scan' # None => scan'[1].adjusted[n] = allocations[prog][n]
             /\ budget' = budget
             /\ ia_budget' = ia_budget
             /\ \A q \in Programs(shape) \ {prog} : allocations'[q] = allocations[q]]_vars

\* C25, its case: the inner search of a branch of a conditional has been through
\* a round, the pairs with the conditional node among them, and has returned.
C25_Witness ==
    /\ variant = "inner"
    /\ shape = "cond"
    /\ pc = "done"
    /\ taxed_budget(prog, budget[prog]) > 0
    /\ time_switched < find_uniform_allocation(prog, budget[prog])
    /\ allocations[prog][Dispatch] = Some(Tau)

\* C29: naive_hill_climbing_inner called on a program whose expression type is
\* neither conditional nor for ends in an error before any search step, the
\* program's budget and allocations being as they were; no inner search is ever
\* running, or returned, on such a program.
C29_InnerWithoutTypeRaises ==
    [][(pc = "idle" /\ variant' = "inner"
            /\ subprogram_expression_type(prog') \notin {"conditional", "for"})
          => /\ pc' = "raised"
             /\ budget' = budget
             /\ ia_budget' = ia_budget
             /\ allocations' = allocations
             /\ todo' = todo
             /\ possible_local_max' = possible_local_max]_vars

\* C29, its case: the inner search was called on the outer program, whose
\* expression type is the constructor's None, and the call has raised.
C29_Witness ==
    /\ pc = "raised"
    /\ variant = "inner"
    /\ prog = Outer
    /\ subprogram_expression_type(prog) = "none"

\* allocations a subprogram may hold before its inner search is called: what it
\* held when built with no budget, with half the budget and with all of it
PriorAllocations(q) ==
    {InitialSubAllocations(shape, order, q, b) : b \in {0, HalfBudget, MaxBudget}}

\* C28: with a taxed budget above zero the allocations an inner search returns do
\* not depend on the allocations the subprogram held before the call: the search
\* called with the same budget on any other prior allocations returns the same.
C28_InnerResultIgnoresPrior ==
    (pc = "done" /\ variant = "inner" /\ taxed_budget(prog, budget[prog]) > 0) =>
        \A a \in PriorAllocations(prog) :
            naive_hill_climbing_inner(prog, [SearchState EXCEPT !.allocations[prog] = a])
                = allocations[prog]

\* C28, its case: an inner search has gone through its rounds and returned on a
\* subprogram whose budget had been changed, so that the allocations it held before
\* the call were not the uniform ones for the budget; it committed an exchange, and
\* what it returns is neither what the subprogram held nor the uniform allocation.
C28_Witness ==
    /\ pc = "done"
    /\ variant = "inner"
    /\ taxed_budget(prog, budget[prog]) > 0
    /\ time_switched < find_uniform_allocation(prog, budget[prog])
    /\ start[1].allocations # uniform_budget(prog, ia_budget[prog])
    /\ start[1].allocations \in PriorAllocations(prog)
    /\ allocations[prog] # start[1].allocations
    /\ allocations[prog] # uniform_budget(prog, ia_budget[prog])

\* the queries an evaluation made of node n at quality q
QueriesOf(e, n, q) ==
    {k \in 1..Len(e.queries) : e.queries[k].node = n /\ e.queries[k].quality = q}

\* the nodes node n of program p depends on, and those of them that have a quality
RECURSIVE Ancestors(_, _)
Ancestors(p, n) ==
    SeqSet(parents[p][n]) \cup UNION {Ancestors(p, m) : m \in SeqSet(parents[p][n])}
PlainAncestors(p, n) == {m \in Ancestors(p, n) : ~IsDispatch(shape, m)}

\* the exact evaluations on record
ExactEvals ==
    {i \in 1..Len(evals) : expected_utility_type = "exact" /\ evals[i].raised = ""}

\* C21: in an exact evaluation a node with more than one parent has each of its
\* quality levels enumerated and weighted once for every combination of its
\* ancestors' qualities, and not once for every path that reaches it.
C21_OncePerCombination ==
    \A i \in ExactEvals :
        \A n \in SeqSet(DagNodes(shape, order, evals[i].p)) :
            Len(parents[evals[i].p][n]) > 1 =>
                \A k \in 1..Len(possible_qualities) :
                    Cardinality(QueriesOf(evals[i], n, possible_qualities[k]))
                        <= Len(possible_qualities)
                               ^ Cardinality(PlainAncestors(evals[i].p, n))

\* the qualities fixed for the parents of node n that are no dispatch nodes
OwnParentQualities(p, n, current_qualities) ==
    ExactParentQualities(parents[p][n], 1, current_qualities)

\* C22: in an exact evaluation the parent-quality list handed to the performance
\* profile for a node holds the qualities currently fixed for that node's own
\* plain parents and nothing else; for a leaf of the first layer it is empty.
C22_OwnParentsOnly ==
    \A i \in ExactEvals :
        \A k \in 1..Len(evals[i].queries) :
            evals[i].queries[k].parent_qualities =
                OwnParentQualities(evals[i].p, evals[i].queries[k].node,
                                   evals[i].queries[k].current_qualities)

Rebudgeted(b) ==
    [SearchState EXCEPT !.budget = [q \in DOMAIN budget |-> IF q = Outer THEN @[q] ELSE b],
                        !.ia_budget = [q \in DOMAIN budget |-> IF q = Outer THEN @[q] ELSE b]]

\* C24: when a candidate of an outer search touches the conditional (or for) node,
\* then by the time it is scored every branch (the body) has been given the
\* candidate's time at that node as its budget, the same for both branches, and has
\* been searched by the inner search; the branch allocations recorded with the
\* candidate are what those searches returned.
C24_BranchesRebudgetedAndSearched ==
    [][(/\ pc = "scan"
        /\ variant \in {"outer_conditional", "outer_for"}
        /\ scan' # None
        /\ Dispatch \in {Head(todo)[1], Head(todo)[2]})
          => /\ \A q \in Programs(shape) \ {Outer} :
                   /\ budget'[q] = scan'[1].adjusted[Dispatch][1]
                   /\ ia_budget'[q] = scan'[1].adjusted[Dispatch][1]
                   /\ allocations'[q] =
                          naive_hill_climbing_inner(q,
                              Rebudgeted(scan'[1].adjusted[Dispatch][1]))
             /\ scan'[1].inner = [i \in 1..Len(SubprogramsOf(shape)) |->
                                      allocations'[SubprogramsOf(shape)[i]]]
             /\ RGt(scan'[1].score, scan'[1].baseline)
                   => possible_local_max'[Len(possible_local_max')]
                          = <<scan'[1].adjusted>> \o scan'[1].inner]_vars

\* C24, its case: the outer search over a conditional scored a candidate that gives
\* time to the conditional node, found it better and recorded it with the branch
\* allocations its inner searches returned for the new budget.
C24_Witness ==
    /\ pc = "scan"
    /\ variant = "outer_conditional"
    /\ scan # None
    /\ scan[1].permutation[2] = Dispatch
    /\ RGt(scan[1].score, scan[1].baseline)
    /\ possible_local_max # <<>>
    /\ budget[TrueSub] = scan[1].adjusted[Dispatch][1]
    /\ budget[FalseSub] = budget[TrueSub]
    /\ budget[TrueSub] # start[1].allocations[Dispatch][1]

\* C27: a base or outer search in which no candidate ever scored above the
\* baseline holds, all the way to its return, the allocations it started from, and
\* an outer search holds and returns with them the allocations the child programs
\* held when it was started.
C27_NoImprovementReturnsStart ==
    (/\ pc \in {"scan", "done"}
     /\ variant \in {"base", "outer_conditional", "outer_for"}
     /\ ~improved)
        => /\ allocations[prog] = start[1].allocations
           /\ Dispatching(shape) =>
                  original_allocations_inner = start[1].original_allocations_inner

\* C27, its case: an outer search over a conditional scored candidates in several
\* rounds, its inner searches changed what the branches hold, none of the
\* candidates was better, and the search returned.
C27_Witness ==
    /\ pc = "done"
    /\ variant = "outer_conditional"
    /\ ~improved
    /\ time_switched < find_uniform_allocation(prog, budget[prog])
    /\ allocations[TrueSub] # start[1].original_allocations_inner[1]

\* C30: when an outer search over a conditional or over a loop has returned, every
\* subprogram has as its budget the time the returned outer allocations give the
\* dispatch node, and holds the inner allocations returned for it.
C30_SubprogramsMatchResult ==
    (pc = "done" /\ variant \in {"outer_conditional", "outer_for"}) =>
        \A i \in 1..Len(SubprogramsOf(shape)) :
            /\ budget[SubprogramsOf(shape)[i]] = allocations[Outer][Dispatch][1]
            /\ allocations[SubprogramsOf(shape)[i]] = original_allocations_inner[i]

===========================================================================
